---------------------------- MODULE Spec2Model ----------------------------
(***************************************************************************)
(* A model of the CS2 skin tracker bot (src/index.js): the per-user        *)
(* conversation sessions, the skins-list cache, the trade-log rows and     *)
(* the handlers that Telegraf dispatches to.                               *)
(*                                                                         *)
(* Text messages are sequences of one-character strings, so that           *)
(* parseFloat is computed from the characters.  Skin names, wear values    *)
(* and account names are strings.  Time is Date.now() in milliseconds,     *)
(* counted from one hour before the process started.                      *)
(***************************************************************************)
EXTENDS Integers, Sequences, FiniteSets, TLC

VARIABLES
    userSessions,   \* src/index.js:222  user id -> session object
    skinsCache,     \* src/index.js:28   [list, lastUpdated]
    rows,           \* the log spreadsheet, Sheet1!A2:F
    now,            \* Date.now()
    last,           \* what the most recently handled event did
    pending         \* user id -> the search of that user suspended at an await

vars == <<userSessions, skinsCache, rows, now, last, pending>>

---------------------------------------------------------------------------
(* Bounds of the model. *)

MaxHours == 2        \* the clock advances by at most this many whole hours
MaxMs == 1           \* ... and by at most this many single milliseconds
MaxSkins == 2        \* pending skins per session
MaxRows == 1         \* rows the log spreadsheet takes

(* Program constants. *)

cacheDuration == 3600000     \* skinsCache.cacheDuration
SessionMaxAge == 3600000     \* the literal in initializeSession's sweep
PageSize == 5                \* search.pageSize
ScoreThreshold == 70         \* searchSkins' filter

Users == {1, 2}

\* the user of the single-conversation specifications
OneUser == {1}

wearOptions ==
    <<"Factory New", "Minimal Wear", "Field-Tested", "Well-Worn", "Battle-Scarred">>

accountOptions == <<"Panda main", "Panda_cs1", "Titalium", "Maleek">>

Range(s) == {s[i] : i \in 1..Len(s)}

Includes(arr, x) == x \in Range(arr)

---------------------------------------------------------------------------
(* JavaScript numbers, as far as the price needs them.  A finite number is *)
(* m * 10^e; an infinity has m = 1 or -1; "undef" is the absent property.  *)

Num(k, m, e) == [kind |-> k, m |-> m, e |-> e]
Undefined == Num("undef", 0, 0)
NaN == Num("nan", 0, 0)

isNaN(x) == x.kind \in {"nan", "undef"}

\* the test of the price written as price < 0
LessThanZero(x) == x.kind \in {"fin", "inf"} /\ x.m < 0

\* x <= 0 in JavaScript: false for NaN and undefined
LeqZero(x) ==
    CASE x.kind = "fin" -> x.m <= 0
      [] x.kind = "inf" -> x.m < 0
      [] OTHER -> FALSE

\* x > 0 and finite
PositiveFinite(x) == x.kind = "fin" /\ x.m > 0

Digits == <<"0", "1", "2", "3", "4", "5", "6", "7", "8", "9">>

IsDigit(c) == Includes(Digits, c)

DigitVal(c) == (CHOOSE i \in 1..10 : Digits[i] = c) - 1

IsWhiteSpace(c) == c \in {" ", "\t", "\n"}

Drop(s, n) == SubSeq(s, n + 1, Len(s))

StartsWith(s, p) == Len(s) >= Len(p) /\ SubSeq(s, 1, Len(p)) = p

RECURSIVE TrimStart(_)
TrimStart(s) ==
    IF s # <<>> /\ IsWhiteSpace(s[1]) THEN TrimStart(Tail(s)) ELSE s

RECURSIVE TrimEnd(_)
TrimEnd(s) ==
    IF s # <<>> /\ IsWhiteSpace(s[Len(s)])
    THEN TrimEnd(SubSeq(s, 1, Len(s) - 1)) ELSE s

\* String.prototype.trim
Trim(s) == TrimEnd(TrimStart(s))

\* the number of leading decimal digits of s
RECURSIVE DigitRun(_)
DigitRun(s) ==
    IF s # <<>> /\ IsDigit(s[1]) THEN 1 + DigitRun(Tail(s)) ELSE 0

\* the value of the digit string s, continuing from acc
RECURSIVE DigitsValue(_, _)
DigitsValue(s, acc) ==
    IF s = <<>> THEN acc ELSE DigitsValue(Tail(s), 10 * acc + DigitVal(s[1]))

RECURSIVE NumDigits(_)
NumDigits(n) == IF n < 10 THEN 1 ELSE 1 + NumDigits(n \div 10)

\* A decimal m * 10^e rounded to a double: overflow gives an infinity,
\* underflow gives zero.
ToDouble(sign, m, e) ==
    IF m = 0 THEN Num("fin", 0, 0)
    ELSE LET sci == NumDigits(m) - 1 + e      \* the exponent in d.ddd * 10^sci
         IN  IF sci > 308 THEN Num("inf", sign, 0)
             ELSE IF sci < -324 THEN Num("fin", 0, 0)
             ELSE Num("fin", sign * m, e)

\* The exponent part of a decimal literal at the head of s: <<value, length>>,
\* or <<0, 0>> when s does not start with a complete exponent part.
ExponentPart(s) ==
    IF s = <<>> \/ s[1] \notin {"e", "E"} THEN <<0, 0>>
    ELSE LET r == Tail(s)
             signed == r # <<>> /\ r[1] \in {"+", "-"}
             d == IF signed THEN Tail(r) ELSE r
             n == DigitRun(d)
         IN  IF n = 0 THEN <<0, 0>>
             ELSE <<(IF signed /\ r[1] = "-" THEN -1 ELSE 1)
                        * DigitsValue(SubSeq(d, 1, n), 0),
                    1 + (IF signed THEN 1 ELSE 0) + n>>

Infinity == <<"I", "n", "f", "i", "n", "i", "t", "y">>

\* The global parseFloat: the longest prefix of the trimmed string that is
\* a StrDecimalLiteral, NaN when there is none.
parseFloat(str) ==
    LET t == TrimStart(str)
        signed == t # <<>> /\ t[1] \in {"+", "-"}
        sign == IF signed /\ t[1] = "-" THEN -1 ELSE 1
        u == IF signed THEN Tail(t) ELSE t
    IN  IF StartsWith(u, Infinity) THEN Num("inf", sign, 0)
        ELSE LET ni == DigitRun(u)
                 afterInt == Drop(u, ni)
                 dot == afterInt # <<>> /\ afterInt[1] = "."
                 nf == IF dot THEN DigitRun(Tail(afterInt)) ELSE 0
                 frac == IF dot THEN SubSeq(afterInt, 2, 1 + nf) ELSE <<>>
                 rest == IF dot THEN Drop(afterInt, 1 + nf) ELSE afterInt
                 ex == ExponentPart(rest)
             IN  IF ni + nf = 0 THEN NaN
                 ELSE ToDouble(sign,
                               DigitsValue(frac, DigitsValue(SubSeq(u, 1, ni), 0)),
                               ex[1] - nf)

---------------------------------------------------------------------------
(* decodeURIComponent on the callback payloads the model sends.  A string  *)
(* without "%" is returned as it is, "%20" is a space and "%7C" a bar, and *)
(* a "%" that starts no escape raises URIError.                            *)

decodeURIComponent(s) ==
    CASE s = "%" -> [ok |-> FALSE, value |-> ""]
      [] s = "Panda%20main" -> [ok |-> TRUE, value |-> "Panda main"]
      [] s = "Factory%20New" -> [ok |-> TRUE, value |-> "Factory New"]
      [] s = "Minimal%20Wear" -> [ok |-> TRUE, value |-> "Minimal Wear"]
      [] s = "AK-47%20%7C%20Redline" -> [ok |-> TRUE, value |-> "AK-47 | Redline"]
      [] s = "AWP%20%7C%20Asiimov" -> [ok |-> TRUE, value |-> "AWP | Asiimov"]
      [] OTHER -> [ok |-> TRUE, value |-> s]

---------------------------------------------------------------------------
(* The skins sheet and the fuzzy search. *)

\* What the skins sheet (Sheet1!A2:B) may hold when it is read: rows of
\* cells.  A row may lack its first cell or hold an empty one.
SmallSheet == << <<"AK-47 | Redline", "rifle">>, <<"">>, <<"AWP | Asiimov">>, <<>> >>

BigSheet ==
    << <<"AK-47 | Redline">>, <<"AWP | Asiimov">>, <<"M4A4 | Howl">>,
       <<"AK-47 | Vulcan">>, <<"AWP | Redline">>, <<"Glock-18 | Fade">>,
       <<"M4A1-S | Red Tiger">> >>

RemoteSheets == {<<>>, SmallSheet, BigSheet}

\* row[0] of a sheet row: undefined (here "") when the row has no cells
FirstCell(row) == IF row = <<>> THEN "" ELSE row[1]

\* Array.prototype.filter, keeping order
Filter(s, Keep(_)) == SelectSeq(s, Keep)

\* (response.data.values || []).map(row => row[0]).filter(Boolean)
SheetNames(values) ==
    LET Truthy(x) == x # ""
    IN  Filter([i \in 1..Len(values) |-> FirstCell(values[i])], Truthy)

\* fuzzball.partial_ratio of the normalized search term and the normalized
\* skin name: the library's score, given here as a table.
partial_ratio(term, skin) ==
    CASE term = <<"a">> -> 100
      [] term = <<"r", "e", "d">> ->
            (CASE skin = "AK-47 | Redline" -> 90
               [] skin = "AWP | Redline" -> 90
               [] skin = "M4A1-S | Red Tiger" -> 100
               [] skin = "AK-47 | Vulcan" -> 70
               [] skin = "M4A4 | Howl" -> 71
               [] OTHER -> 33)
      [] OTHER -> 0

LowerCase ==
    <<"a", "b", "c", "d", "e", "f", "g", "h", "i", "j", "k", "l", "m",
      "n", "o", "p", "q", "r", "s", "t", "u", "v", "w", "x", "y", "z">>

UpperCase ==
    <<"A", "B", "C", "D", "E", "F", "G", "H", "I", "J", "K", "L", "M",
      "N", "O", "P", "Q", "R", "S", "T", "U", "V", "W", "X", "Y", "Z">>

\* String.prototype.toLowerCase, one character
ToLower(c) ==
    IF Includes(UpperCase, c)
    THEN LowerCase[CHOOSE i \in 1..26 : UpperCase[i] = c] ELSE c

\* searchTerm.toLowerCase().replace(/[^a-z0-9\s]/g, '')
Normalize(text) ==
    LET Kept(c) == Includes(LowerCase, c) \/ IsDigit(c) \/ IsWhiteSpace(c)
    IN  Filter([i \in 1..Len(text) |-> ToLower(text[i])], Kept)

\* the scored entries in the order Array.prototype.sort leaves them: by
\* descending score, equal scores in their original order (the sort is stable)
RECURSIVE InsertByScore(_, _)
InsertByScore(sorted, x) ==
    IF sorted = <<>> THEN <<x>>
    ELSE IF sorted[1].score >= x.score
         THEN <<sorted[1]>> \o InsertByScore(Tail(sorted), x)
         ELSE <<x>> \o sorted

RECURSIVE SortByScore(_)
SortByScore(s) ==
    IF s = <<>> THEN <<>>
    ELSE InsertByScore(SortByScore(SubSeq(s, 1, Len(s) - 1)), s[Len(s)])

\* the filter of searchSkins written as result.score >= 70
AtOrAboveThreshold(result) == result.score >= ScoreThreshold

\* .filter(result => result.score > 70)
AboveThreshold(result) == result.score > ScoreThreshold

searchSkins(skinsList, searchTerm) ==
    LET normalizedSearch == Normalize(searchTerm)
        scored == [i \in 1..Len(skinsList) |->
                      [name |-> skinsList[i],
                       score |-> partial_ratio(normalizedSearch, skinsList[i])]]
        Passes(r) == AboveThreshold(r)
        ranked == SortByScore(Filter(scored, Passes))
    IN  [i \in 1..Len(ranked) |-> ranked[i].name]

\* Array.prototype.slice(start, end) with 0 <= start <= end
Slice(s, start, end) ==
    SubSeq(s, start + 1, IF end < Len(s) THEN end ELSE Len(s))

\* Math.ceil(a / b) for a >= 0, b > 0
CeilDiv(a, b) == (a + b - 1) \div b

\* A results message: the skins its buttons offer, whether it has the
\* Previous and the Next button, and the "Page `page` of `total`" it shows.
NoView == [skins |-> <<>>, prev |-> FALSE, next |-> FALSE, page |-> 0, total |-> 0]

\* the results message of the search, bot.on('text')
FirstPageView(search) ==
    [skins |-> Slice(search.results, 0, search.pageSize),
     prev |-> FALSE,
     next |-> Len(search.results) > search.pageSize,
     page |-> 1,
     total |-> CeilDiv(Len(search.results), search.pageSize)]

\* the Next button of the page handler with its test written end <= results.length
HasNextInclusive(end, length) == end <= length

\* if (end < results.length): the page handler adds the Next button
HasNext(end, length) == end < length

\* the results message of bot.action(/page_(\d+)/)
PageView(results, pageSize, page) ==
    LET start == page * pageSize
        end == start + pageSize
    IN  [skins |-> Slice(results, start, end),
         prev |-> page > 0,
         next |-> HasNext(end, Len(results)),
         page |-> page + 1,
         total |-> CeilDiv(Len(results), pageSize)]

\* fetchSkinsList: `remote` is what the sheet read does if it is made,
\* [ok |-> FALSE] when it rejects.  The result tells whether the call
\* threw, the list it returned, the cache afterwards and whether the
\* sheet was read.
\* the age test of the cache turned around
CacheValidInverted(cache, t) ==
    Len(cache.list) > 0 /\ t - cache.lastUpdated > cacheDuration

\* the catch block of fetchSkinsList without its fallback to the cached list
ThrowsAlways(cache) == TRUE

\* the test that serves the cached list
CacheValid(cache, t) ==
    Len(cache.list) > 0 /\ t - cache.lastUpdated < cacheDuration

\* the catch block of fetchSkinsList throws when there is no cached list
Rethrows(cache) == ~(Len(cache.list) > 0)

\* the cache update with skinsCache.lastUpdated = Date.now() left out
CacheWriteListOnly(cache, list, t) == [cache EXCEPT !.list = list]

\* skinsCache.list = skinsList; skinsCache.lastUpdated = Date.now()
CacheWrite(cache, list, t) == [list |-> list, lastUpdated |-> t]

\* the cached list served without a read
ServedFromCache(cache) ==
    [threw |-> FALSE, list |-> cache.list, cache |-> cache, fetch |-> "none"]

\* fetchSkinsList from the moment its sheet read settles, at time t with the
\* cache as it is then
AfterRead(cache, t, remote) ==
    IF remote.ok
    THEN LET skinsList == SheetNames(remote.values)
         IN  [threw |-> FALSE, list |-> skinsList,
              cache |-> CacheWrite(cache, skinsList, t), fetch |-> "ok"]
    ELSE IF ~Rethrows(cache)
    THEN [threw |-> FALSE, list |-> cache.list, cache |-> cache, fetch |-> "fail"]
    ELSE [threw |-> TRUE, list |-> <<>>, cache |-> cache, fetch |-> "fail"]

\* fetchSkinsList with nothing else running between its test of the cache
\* and the end of its sheet read
fetchSkinsList(cache, t, remote) ==
    IF CacheValid(cache, t) THEN ServedFromCache(cache)
    ELSE AfterRead(cache, t, remote)

\* what reading the skins sheet may do: return one of `sheets`, or reject
ReadOutcomes(sheets) ==
    {[ok |-> TRUE, values |-> v] : v \in sheets} \cup {[ok |-> FALSE, values |-> <<>>]}

---------------------------------------------------------------------------
(* Sessions. *)

EmptySearch == [term |-> <<>>, results |-> <<>>, page |-> 0, pageSize |-> PageSize]

\* the object literal of initializeSession and of the reset after a commit;
\* price and currentSkin are absent from it
NewSession(t) ==
    [skins |-> <<>>, step |-> "addSkin", timestamp |-> t, search |-> EmptySearch,
     price |-> Undefined, currentSkin |-> <<>>]

Put(sessions, id, s) ==
    [k \in DOMAIN sessions \cup {id} |-> IF k = id THEN s ELSE sessions[k]]

\* the sweep with >= for >: a session is swept at the age of one hour
ExpiredAtTheHour(s, t) == t - s.timestamp >= SessionMaxAge

\* the sweep of initializeSession
Expired(s, t) == t - s.timestamp > SessionMaxAge

\* userSessions after initializeSession(userId) at time t
initializeSession(sessions, userId, t) ==
    IF userId \in DOMAIN sessions THEN sessions
    ELSE LET added == Put(sessions, userId, NewSession(t))
         IN  [k \in {id \in DOMAIN added : ~Expired(added[id], t)} |-> added[k]]

---------------------------------------------------------------------------
(* The log spreadsheet. *)

MsPerDay == 86400000

\* new Date().toISOString().split('T')[0]: the day, as a day number
IsoDate(t) == t \div MsPerDay

\* the rows appendToSpreadsheet builds; the fifth column is left empty
RowsOf(skins, price, account, t) ==
    [i \in 1..Len(skins) |->
        [date |-> IsoDate(t), name |-> skins[i].name, wear |-> skins[i].wear,
         price |-> price, reserved |-> "", account |-> account]]

\* x || 'N/A' for a text cell of a row: '' gives 'N/A'
TextOrNA(x) == IF x = "" THEN "N/A" ELSE x

\* x || 'N/A' for the price cell: undefined, NaN and 0 give 'N/A'
NumberOrNA(x) ==
    IF x.kind \in {"undef", "nan"} \/ (x.kind = "fin" /\ x.m = 0) THEN "N/A" ELSE x

Max(a, b) == IF a > b THEN a ELSE b

Min(a, b) == IF a < b THEN a ELSE b

\* Array.prototype.slice(start) with one argument: a negative start counts
\* from the end, and -0 is 0
SliceFrom(s, start) ==
    LET k == IF start < 0 THEN Max(Len(s) + start, 0) ELSE Min(start, Len(s))
    IN  SubSeq(s, k + 1, Len(s))

\* Array.prototype.reverse
Reverse(s) == [i \in 1..Len(s) |-> s[Len(s) + 1 - i]]

NoRecentTrades == "No recent trades found."

\* getRecentTrades on the rows the sheet read returned: one summary per row.
\* The first cell of every row of the model holds a date.
getRecentTrades(values, count) ==
    IF Len(values) = 0 THEN <<NoRecentTrades>>
    ELSE LET recent == Reverse(SliceFrom(values, 0 - count))
         IN  [index \in 1..Len(recent) |->
                 [trade |-> index,
                  date |-> recent[index].date,
                  skin |-> TextOrNA(recent[index].name),
                  wear |-> TextOrNA(recent[index].wear),
                  price |-> NumberOrNA(recent[index].price),
                  account |-> TextOrNA(recent[index].account)]]

NoPreviousLogs == "No previous logs found."

\* getLastLog on the rows the sheet read returned: the rows that carry the
\* date of the last row, then the price and account of the first of them
getLastLog(values) ==
    IF Len(values) = 0 THEN NoPreviousLogs
    ELSE LET lastDate == values[Len(values)].date
             SameDate(row) == row.date = lastDate
             lastSessionRows == Filter(values, SameDate)
         IN  IF Len(lastSessionRows) = 0 THEN NoPreviousLogs
             ELSE [date |-> lastDate,
                   skins |-> [index \in 1..Len(lastSessionRows) |->
                                 [skin |-> TextOrNA(lastSessionRows[index].name),
                                  wear |-> TextOrNA(lastSessionRows[index].wear)]],
                   price |-> NumberOrNA(lastSessionRows[1].price),
                   account |-> TextOrNA(lastSessionRows[1].account)]

---------------------------------------------------------------------------
(* The events the model sends. *)

MaxPage == 2         \* the page numbers a page_N callback carries: 0..MaxPage

\* "a" and "Red" are search terms that match skins (and no numbers),
\* the others read as prices
Texts ==
    { <<"a">>, <<"R", "e", "d">>, <<" ", "1", "2", ".", "5", "0", "$">>,
      <<"0">>, <<"-", "5">>, Infinity }

SkinPayloads == {"AK-47%20%7C%20Redline", "%"}

WearPayloads == {"Factory%20New", "Mint", "%"}

AccountPayloads == {"Panda%20main", "Stranger", "%"}

\* the clock at process start: lastUpdated = 0 lies a full cacheDuration back
BootTime == cacheDuration

Event(ev, u, msgs, writer, fetch, created) ==
    [ev |-> ev, user |-> u, msgs |-> msgs, writer |-> writer, fetch |-> fetch,
     created |-> created, view |-> NoView]

\* the event of a handler that sent a results message
Showing(event, view) == [event EXCEPT !.view = view]

Init ==
    /\ userSessions = [k \in {} |-> NewSession(0)]
    /\ skinsCache = [list |-> <<>>, lastUpdated |-> 0]
    /\ rows = <<>>
    /\ now = BootTime
    /\ last = Event("boot", 0, <<>>, "none", "none", FALSE)
    /\ pending = [k \in {} |-> [pc |-> "client", text |-> <<>>]]

---------------------------------------------------------------------------
(* The handlers.  Each action is one event handled from its first line to  *)
(* its last; what the sheets client, the sheet reads and writes and the    *)
(* message send do is an input of the action.                              *)

\* time passes between two events
Tick(d) ==
    /\ d \in {1, SessionMaxAge}
    /\ d = 1 => (now - BootTime) % SessionMaxAge < MaxMs
    /\ d = SessionMaxAge => (now - BootTime) \div SessionMaxAge < MaxHours
    /\ now' = now + d
    /\ last' = Event("tick", 0, <<>>, "none", "none", FALSE)
    /\ UNCHANGED <<userSessions, skinsCache, rows, pending>>

\* bot.start and bot.command('price'): the session is initialized after the
\* menu was sent, and not at all when the sheets client or the send fails
StartCommand(u, ok) ==
    /\ userSessions' = IF ok THEN initializeSession(userSessions, u, now)
                       ELSE userSessions
    /\ last' = Event("start", u, IF ok THEN <<"menu">> ELSE <<"error_start">>,
                     "none", "none", ok /\ u \notin DOMAIN userSessions)
    /\ UNCHANGED <<skinsCache, rows, now, pending>>

\* bot.action('add_new_skin')
AddNewSkin(u) ==
    LET s0 == initializeSession(userSessions, u, now)
    IN  /\ userSessions' =
              Put(s0, u, [s0[u] EXCEPT !.step = "searchSkin", !.search = EmptySearch])
        /\ last' = Event("add_new_skin", u, <<"ask_skin_name">>, "none", "none",
                         u \notin DOMAIN userSessions)
        /\ UNCHANGED <<skinsCache, rows, now, pending>>

\* bot.action(/page_(\d+)/)
PageAction(u, page, sheetsOk) ==
    LET s0 == initializeSession(userSessions, u, now)
        session == s0[u]
        results == session.search.results
        pageSize == session.search.pageSize
        pageSkins == Slice(results, page * pageSize, page * pageSize + pageSize)
        msg == CASE ~sheetsOk -> "error_page"
                 [] sheetsOk /\ Len(results) = 0 -> "no_results_available"
                 [] sheetsOk /\ Len(results) # 0 /\ Len(pageSkins) = 0 -> "no_more_results"
                 [] OTHER -> "results_page"
    IN  /\ userSessions' =
              IF sheetsOk /\ Len(results) # 0
              THEN Put(s0, u, [session EXCEPT !.search.page = page])
              ELSE s0
        /\ last' = Showing(Event("page", u, <<msg>>, "none", "none",
                                  u \notin DOMAIN userSessions),
                            IF msg = "results_page"
                            THEN PageView(results, pageSize, page) ELSE NoView)
        /\ UNCHANGED <<skinsCache, rows, now, pending>>

\* the enterPrice branch of bot.on('text')
EnterPrice(session, text) ==
    LET price == parseFloat(text)
    IN  IF isNaN(price) THEN [session |-> session, msg |-> "invalid_number"]
        ELSE IF LeqZero(price)
        THEN [session |-> session, msg |-> "price_must_be_positive"]
        ELSE [session |-> [session EXCEPT !.price = price, !.step = "selectAccount"],
              msg |-> "select_account"]

\* The searchSkin branch of bot.on('text') from the return of fetchSkinsList
\* (result r) to its reply: the search state is stored and the first page,
\* or the lack of results, or the error is sent.  The sessions and the
\* event that result.
SearchAnswer(sessions, u, text, r, created) ==
    LET session == sessions[u]
        found == searchSkins(r.list, text)
    IN  [sessions |->
             IF r.threw THEN sessions
             ELSE Put(sessions, u, [session EXCEPT
                      !.search.term = text,
                      !.search.results = found,
                      !.search.page = 0]),
         event |->
             Showing(Event("text", u,
                           << CASE r.threw -> "error_search_fetch"
                                [] ~r.threw /\ Len(found) = 0 -> "no_skins_found"
                                [] OTHER -> "results_page" >>,
                           "none", r.fetch, created),
                     IF ~r.threw /\ Len(found) # 0
                     THEN FirstPageView([session.search EXCEPT !.results = found])
                     ELSE NoView)]

SearchDone(sessions, u, text, r, created) ==
    /\ skinsCache' = r.cache
    /\ userSessions' = SearchAnswer(sessions, u, text, r, created).sessions
    /\ last' = SearchAnswer(sessions, u, text, r, created).event

\* bot.on('text')
TextMessage(u, rawText, sheetsOk, remote) ==
    LET s0 == initializeSession(userSessions, u, now)
        session == s0[u]
        text == Trim(rawText)
        created == u \notin DOMAIN userSessions
    IN  IF session.step = "searchSkin"
        THEN IF ~sheetsOk
             THEN /\ userSessions' = s0
                  /\ skinsCache' = skinsCache
                  /\ last' = Event("text", u, <<"error_search_client">>, "none", "none", created)
                  /\ UNCHANGED <<rows, now, pending>>
             ELSE /\ SearchDone(s0, u, text, fetchSkinsList(skinsCache, now, remote),
                             created)
                  /\ UNCHANGED <<rows, now, pending>>
        ELSE IF session.step = "enterPrice"
        THEN LET r == EnterPrice(session, text)
             IN  /\ userSessions' = Put(s0, u, r.session)
                 /\ last' = Event("text", u, <<r.msg>>, "none", "none", created)
                 /\ UNCHANGED <<skinsCache, rows, now, pending>>
        ELSE /\ userSessions' = s0
             /\ last' = Event("text", u, <<"use_menu">>, "none", "none", created)
             /\ UNCHANGED <<skinsCache, rows, now, pending>>

\* bot.action(/select_skin_(.+)/)
SelectSkin(u, data) ==
    LET s0 == initializeSession(userSessions, u, now)
        session == s0[u]
        skinName == decodeURIComponent(data)
    IN  /\ userSessions' =
              IF skinName.ok
              THEN Put(s0, u, [session EXCEPT
                       !.currentSkin = <<[name |-> skinName.value]>>,
                       !.step = "selectWear"])
              ELSE s0
        /\ last' = Event("select_skin", u,
                         IF skinName.ok THEN <<"choose_wear">> ELSE <<"error_selection">>,
                         "none", "none", u \notin DOMAIN userSessions)
        /\ UNCHANGED <<skinsCache, rows, now, pending>>

\* the entry pushed without session.currentSkin.wear = wear
PendingEntryWithoutWear(skin, wear) == [name |-> skin.name, wear |-> ""]

\* session.currentSkin after its wear was set: the entry pushed to session.skins
PendingEntry(skin, wear) == [name |-> skin.name, wear |-> wear]

\* bot.action(/select_wear_(.+)/): writing the wear of an absent currentSkin
\* throws TypeError, which the handler catches
SelectWear(u, data) ==
    LET s0 == initializeSession(userSessions, u, now)
        session == s0[u]
        wear == decodeURIComponent(data)
        valid == wear.ok /\ Includes(wearOptions, wear.value)
        adds == valid /\ session.currentSkin # <<>>
    IN  /\ adds => Len(session.skins) < MaxSkins
        /\ userSessions' =
              IF adds
              THEN Put(s0, u, [session EXCEPT
                       !.skins = Append(@, PendingEntry(session.currentSkin[1],
                                                        wear.value)),
                       !.currentSkin = <<>>,
                       !.step = "addSkin"])
              ELSE s0
        /\ last' = Event("select_wear", u,
                         << CASE adds -> "added_skin"
                              [] wear.ok /\ ~valid -> "invalid_wear"
                              [] OTHER -> "error_wear" >>,
                         "none", "none", u \notin DOMAIN userSessions)
        /\ UNCHANGED <<skinsCache, rows, now, pending>>

\* finish_log without its check of session.skins
NoSkinsUnchecked(session) == FALSE

\* the early return of finish_log
NoSkins(session) == Len(session.skins) = 0

\* finish_log with the `return` before its first reply left out
FinishRepliesWithoutReturn(empty) ==
    IF empty THEN <<"no_skins_added", "ask_price">> ELSE <<"ask_price">>

\* the replies of finish_log: the early return sends the one, the end of the
\* handler the other
FinishReplies(empty) == IF empty THEN <<"no_skins_added">> ELSE <<"ask_price">>

\* bot.action('finish_log')
FinishLog(u) ==
    LET s0 == initializeSession(userSessions, u, now)
        session == s0[u]
        empty == NoSkins(session)
    IN  /\ userSessions' =
              IF empty THEN s0 ELSE Put(s0, u, [session EXCEPT !.step = "enterPrice"])
        /\ last' = Event("finish_log", u, FinishReplies(empty),
                         "none", "none", u \notin DOMAIN userSessions)
        /\ UNCHANGED <<skinsCache, rows, now, pending>>

\* select_account without its check of the account name
AnyAccount(account) == account.ok

\* the account a select_account callback carries is one of accountOptions
KnownAccount(account) == account.ok /\ Includes(accountOptions, account.value)

\* the reset moved out of the try block: it runs whatever the append did
ResetsAfterAnyAppend(written, replyOk) == TRUE

\* The reset of select_account is the last statement of the try block: it is
\* reached when the append and the send of the success message both succeeded.
ResetsSession(written, replyOk) == written /\ replyOk

\* bot.action(/select_account_(.+)/): appendOk is whether the append to the
\* log sheet succeeds, replyOk whether the success message is sent.  Every
\* failure after the validation ends in the catch block, which sends the
\* error message and leaves the session as it is.
SelectAccount(u, data, sheetsOk, appendOk, replyOk) ==
    LET s0 == initializeSession(userSessions, u, now)
        session == s0[u]
        account == decodeURIComponent(data)
        known == KnownAccount(account)
        calls == known /\ sheetsOk          \* appendToSpreadsheet is called
        written == calls /\ appendOk
        values == RowsOf(session.skins, session.price, account.value, now)
    IN  /\ written => Len(rows) + Len(values) <= MaxRows
        /\ rows' = IF written THEN rows \o values ELSE rows
        /\ userSessions' =
              IF calls /\ ResetsSession(written, replyOk)
              THEN Put(s0, u, NewSession(now)) ELSE s0
        /\ last' = Event("select_account", u,
                         CASE account.ok /\ ~known -> <<"invalid_account">>
                           [] written /\ replyOk -> <<"log_saved">>
                           [] written /\ ~replyOk -> <<"log_saved", "error_saving">>
                           [] OTHER -> <<"error_saving">>,
                         CASE written -> "ok" [] calls /\ ~appendOk -> "fail"
                           [] OTHER -> "none",
                         "none", u \notin DOMAIN userSessions)
        /\ UNCHANGED <<skinsCache, now, pending>>

Rejected == [ok |-> FALSE, values |-> <<>>]

\* The events of the users U, with search and price texts T and the skins
\* sheet holding one of `sheets` whenever it is read.  An outcome is drawn
\* only for the calls the handler can reach.
Handle(U, T, sheets) ==
    \/ \E u \in U, ok \in BOOLEAN : StartCommand(u, ok)
    \/ \E u \in U : AddNewSkin(u)
    \/ \E u \in U, page \in 0..MaxPage, sheetsOk \in BOOLEAN :
          PageAction(u, page, sheetsOk)
    \/ \E u \in U, text \in T, sheetsOk \in BOOLEAN :
          \E remote \in IF sheetsOk THEN ReadOutcomes(sheets) ELSE {Rejected} :
              TextMessage(u, text, sheetsOk, remote)
    \/ \E u \in U, data \in SkinPayloads : SelectSkin(u, data)
    \/ \E u \in U, data \in WearPayloads : SelectWear(u, data)
    \/ \E u \in U : FinishLog(u)
    \/ \E u \in U, data \in AccountPayloads, sheetsOk \in BOOLEAN :
          \E appendOk \in IF sheetsOk THEN BOOLEAN ELSE {FALSE} :
              \E replyOk \in IF appendOk THEN BOOLEAN ELSE {FALSE} :
                  SelectAccount(u, data, sheetsOk, appendOk, replyOk)

\* One user's conversation, the clock standing still.
Next == Handle(OneUser, Texts, {<<>>, BigSheet})

Spec == Init /\ [][Next]_vars

\* Two users and the clock: the handlers that need no sheet, which is
\* where sessions are created, swept and told apart.
NextSessions ==
    \/ \E d \in {1, SessionMaxAge} : Tick(d)
    \/ \E u \in Users, ok \in BOOLEAN : StartCommand(u, ok)
    \/ \E u \in Users : AddNewSkin(u)
    \/ \E u \in Users : SelectSkin(u, "AK-47%20%7C%20Redline")
    \/ \E u \in Users : SelectWear(u, "Factory%20New")
    \/ \E u \in Users : FinishLog(u)

SpecSessions == Init /\ [][NextSessions]_vars

\* One user searching while the clock runs and the skins sheet changes.
NextCache ==
    \/ \E d \in {1, cacheDuration} : Tick(d)
    \/ \E u \in OneUser : AddNewSkin(u)
    \/ \E u \in OneUser, text \in {<<"a">>, <<"R", "e", "d">>}, sheetsOk \in BOOLEAN :
          \E remote \in IF sheetsOk THEN ReadOutcomes(RemoteSheets) ELSE {Rejected} :
              TextMessage(u, text, sheetsOk, remote)

SpecCache == Init /\ [][NextCache]_vars

\* One user's conversation with one text of each kind: a search term, a
\* price, a number that is no price.  The skins sheet does not change.
DialogueTexts ==
    { <<"a">>, <<" ", "1", "2", ".", "5", "0", "$">>, <<"0">>, <<"-", "5">> }

NextDialogue == Handle(OneUser, DialogueTexts, {BigSheet})

SpecDialogue == Init /\ [][NextDialogue]_vars

---------------------------------------------------------------------------
(* Searching and paging alone: one user, the clock running, and skins      *)
(* sheets of 0, 2, 5, 7, 10 and 11 names.                                  *)

LongSheet ==
    BigSheet \o << <<"USP-S | Kill Confirmed">>, <<"Desert Eagle | Blaze">>,
                   <<"AK-47 | Fire Serpent">>, <<"AWP | Dragon Lore">> >>

\* the first n rows of the sheet
FirstRows(sheet, n) == SubSeq(sheet, 1, n)

SearchSheets ==
    { <<>>, SmallSheet, FirstRows(LongSheet, PageSize), BigSheet,
      FirstRows(LongSheet, 2 * PageSize), LongSheet }

\* "a" matches every name, "Red" some of them, "0" none
SearchTexts == { <<"a">>, <<"R", "e", "d">>, <<"0">> }

NextSearch ==
    \/ Tick(cacheDuration)
    \/ \E u \in OneUser : AddNewSkin(u)
    \/ \E u \in OneUser, text \in SearchTexts, sheetsOk \in BOOLEAN :
          \E remote \in IF sheetsOk THEN ReadOutcomes(SearchSheets) ELSE {Rejected} :
              TextMessage(u, text, sheetsOk, remote)
    \/ \E u \in OneUser, page \in 0..MaxPage, sheetsOk \in BOOLEAN :
          PageAction(u, page, sheetsOk)

SpecSearch == Init /\ [][NextSearch]_vars

---------------------------------------------------------------------------
(* Two users searching at once.  A search gives way to other events at its *)
(* two awaits: of the sheets client and, in fetchSkinsList, of the sheet   *)
(* read.  Between two awaits the handler runs without interruption.        *)

Without(f, id) == [k \in DOMAIN f \ {id} |-> f[k]]

\* bot.on('text') in searchSkin, up to `await getSheetsClient()`
SearchReceived(u, rawText) ==
    /\ u \in DOMAIN userSessions /\ u \notin DOMAIN pending
    /\ userSessions[u].step = "searchSkin"
    /\ pending' = Put(pending, u, [pc |-> "client", text |-> Trim(rawText)])
    /\ last' = Event("text_received", u, <<>>, "none", "none", FALSE)
    /\ UNCHANGED <<userSessions, skinsCache, rows, now>>

\* The sheets client arrives, or fails.  fetchSkinsList tests the cache: a
\* valid cache is returned and the search answered, otherwise the sheet read
\* is sent and awaited.
SearchClient(u, sheetsOk) ==
    /\ u \in DOMAIN pending /\ pending[u].pc = "client"
    /\ IF ~sheetsOk
       THEN /\ pending' = Without(pending, u)
            /\ last' = Event("text", u, <<"error_search_client">>, "none", "none", FALSE)
            /\ UNCHANGED <<userSessions, skinsCache>>
       ELSE IF CacheValid(skinsCache, now)
       THEN /\ pending' = Without(pending, u)
            /\ SearchDone(userSessions, u, pending[u].text,
                          ServedFromCache(skinsCache), FALSE)
       ELSE /\ pending' = Put(pending, u, [pending[u] EXCEPT !.pc = "read"])
            /\ last' = Event("text_reading", u, <<>>, "none", "none", FALSE)
            /\ UNCHANGED <<userSessions, skinsCache>>
    /\ UNCHANGED <<rows, now>>

\* The sheet read settles: fetchSkinsList updates the cache and returns, or
\* falls back to the cache as it is by now, or throws; the search is answered.
SearchRead(u, remote) ==
    /\ u \in DOMAIN pending /\ pending[u].pc = "read"
    /\ pending' = Without(pending, u)
    /\ SearchDone(userSessions, u, pending[u].text,
                  AfterRead(skinsCache, now, remote), FALSE)
    /\ UNCHANGED <<rows, now>>

NextRace ==
    \/ Tick(1)
    \/ \E u \in Users : AddNewSkin(u)
    \/ \E u \in Users : SearchReceived(u, <<"a">>)
    \/ \E u \in Users, sheetsOk \in BOOLEAN : SearchClient(u, sheetsOk)
    \/ \E u \in Users, remote \in ReadOutcomes(RemoteSheets) : SearchRead(u, remote)

\* `await getSheetsClient()` settles: the call leaves the await, answered or
\* on to the sheet read.
ClientSettles(u) ==
    /\ u \in DOMAIN pending /\ pending[u].pc = "client"
    /\ \/ pending' = Without(pending, u)
       \/ pending' = Put(pending, u, [pending[u] EXCEPT !.pc = "read"])

\* `await sheets.spreadsheets.values.get(...)` settles: the call is answered.
ReadSettles(u) ==
    /\ u \in DOMAIN pending /\ pending[u].pc = "read"
    /\ pending' = Without(pending, u)

\* An awaited promise settles in the end, whatever the other calls do.
SpecRace ==
    /\ Init /\ [][NextRace]_vars
    /\ \A u \in Users : WF_pending(ClientSettles(u)) /\ WF_pending(ReadSettles(u))

---------------------------------------------------------------------------
(* One user saving a log, with select_account taken apart at its awaits:   *)
(* of the sheets client, of the append inside appendToSpreadsheet, and of  *)
(* the send of the success message.  A call in flight is kept in `pending` *)
(* under a call number; between two awaits it runs without interruption.   *)

MaxCalls == 2         \* select_account calls in flight at once
MaxCommitRows == 2    \* rows the log spreadsheet takes here

CommitWears == {"Factory%20New", "Minimal%20Wear"}

CommitAccounts == {"Panda%20main", "Stranger"}

\* `const session = initializeSession(ctx.from.id)`: the object the call
\* holds.  held = <<>> while that object is still userSessions[user]; once
\* the store was given a new object, held is the old one.
HeldSession(call) ==
    IF call.held = <<>> THEN userSessions[call.user] ELSE call.held[1]

\* userSessions[id] = { ... } by call k: every other call of the user that
\* still holds the store's object keeps the object that was replaced
Detach(calls, k, u, old) ==
    [j \in DOMAIN calls \ {k} |->
        IF calls[j].user = u /\ calls[j].held = <<>>
        THEN [calls[j] EXCEPT !.held = <<old>>] ELSE calls[j]]

\* the name and wear of every row
Logged(log) == {[name |-> log[i].name, wear |-> log[i].wear] : i \in 1..Len(log)}

\* The skin about to be pushed by select_wear was picked for the first time:
\* every pendingSkins entry is a different skin and wear, so that a row of
\* the log is the row of one entry.
FreshEntry(u, data) ==
    LET wear == decodeURIComponent(data)
    IN  (u \in DOMAIN userSessions /\ userSessions[u].currentSkin # <<>>)
        => LET entry == PendingEntry(userSessions[u].currentSkin[1], wear.value)
           IN  /\ entry \notin Logged(rows)
               /\ entry \notin Range(userSessions[u].skins)
               /\ \A k \in DOMAIN pending :
                     /\ entry \notin Logged(pending[k].values)
                     /\ entry \notin Range(HeldSession(pending[k]).skins)

\* select_account up to `await getSheetsClient()`; an unknown account or a
\* payload that does not decode ends the call with one reply
AccountReceived(k, u, data) ==
    LET s0 == initializeSession(userSessions, u, now)
        account == decodeURIComponent(data)
    IN  /\ k \notin DOMAIN pending
        /\ userSessions' = s0
        /\ IF KnownAccount(account)
           THEN /\ pending' = Put(pending, k,
                       [pc |-> "client", user |-> u, account |-> account.value,
                        held |-> <<>>, values |-> <<>>])
                /\ last' = Event("select_account", u, <<>>, "none", "none",
                                 u \notin DOMAIN userSessions)
           ELSE /\ pending' = pending
                /\ last' = Event("select_account", u,
                                 IF account.ok THEN <<"invalid_account">>
                                 ELSE <<"error_saving">>,
                                 "none", "none", u \notin DOMAIN userSessions)
        /\ UNCHANGED <<skinsCache, rows, now>>

\* The sheets client arrives, or fails.  appendToSpreadsheet is called with
\* session.skins and session.price as they are now; it builds the rows and
\* sends the append.
AccountClient(k, sheetsOk) ==
    /\ k \in DOMAIN pending /\ pending[k].pc = "client"
    /\ LET call == pending[k]
           session == HeldSession(call)
       IN  IF sheetsOk
           THEN /\ pending' = Put(pending, k,
                       [call EXCEPT !.pc = "append",
                                    !.values = RowsOf(session.skins, session.price,
                                                      call.account, now)])
                /\ last' = Event("select_account", call.user, <<>>, "none", "none", FALSE)
           ELSE /\ pending' = Without(pending, k)
                /\ last' = Event("select_account", call.user, <<"error_saving">>,
                                 "none", "none", FALSE)
    /\ UNCHANGED <<userSessions, skinsCache, rows, now>>

\* The append settles: the rows are in the log and the success message is
\* sent, or the append failed and the catch block replies.
AccountAppend(k, appendOk) ==
    /\ k \in DOMAIN pending /\ pending[k].pc = "append"
    /\ LET call == pending[k]
       IN  IF appendOk
           THEN /\ Len(rows) + Len(call.values) <= MaxCommitRows
                /\ rows' = rows \o call.values
                /\ pending' = Put(pending, k, [call EXCEPT !.pc = "reply"])
                /\ last' = Event("select_account", call.user, <<>>, "ok", "none", FALSE)
           ELSE /\ rows' = rows
                /\ pending' = Without(pending, k)
                /\ last' = Event("select_account", call.user, <<"error_saving">>,
                                 "fail", "none", FALSE)
    /\ UNCHANGED <<userSessions, skinsCache, now>>

\* The send of the success message settles: the store gets a new session
\* object for the user, or the send failed and the catch block replies.
AccountReplied(k, replyOk) ==
    /\ k \in DOMAIN pending /\ pending[k].pc = "reply"
    /\ LET call == pending[k]
       IN  IF ResetsSession(TRUE, replyOk)
           THEN /\ userSessions' = Put(userSessions, call.user, NewSession(now))
                /\ pending' = Detach(pending, k, call.user, HeldSession(call))
                /\ last' = Event("select_account", call.user, <<"log_saved">>,
                                 "none", "none", FALSE)
           ELSE /\ userSessions' = userSessions
                /\ pending' = Without(pending, k)
                /\ last' = Event("select_account", call.user,
                                 <<"log_saved", "error_saving">>, "none", "none", FALSE)
    /\ UNCHANGED <<skinsCache, rows, now>>

\* select_wear for a skin and wear not picked before
SelectFreshWear(u, data) == FreshEntry(u, data) /\ SelectWear(u, data)

NextCommit ==
    \/ \E u \in OneUser : SelectSkin(u, "AK-47%20%7C%20Redline")
    \/ \E u \in OneUser, data \in CommitWears : SelectFreshWear(u, data)
    \/ \E u \in OneUser : FinishLog(u)
    \/ \E u \in OneUser : TextMessage(u, <<"7">>, FALSE, Rejected)
    \/ \E k \in 1..MaxCalls, u \in OneUser, data \in CommitAccounts :
          AccountReceived(k, u, data)
    \/ \E k \in 1..MaxCalls, sheetsOk \in BOOLEAN : AccountClient(k, sheetsOk)
    \/ \E k \in 1..MaxCalls, appendOk \in BOOLEAN : AccountAppend(k, appendOk)
    \/ \E k \in 1..MaxCalls, replyOk \in BOOLEAN : AccountReplied(k, replyOk)

SpecCommit == Init /\ [][NextCommit]_vars

---------------------------------------------------------------------------
(* Two users, one store: user 1 goes through the whole conversation while  *)
(* user 2 picks a skin in a session of their own, and the clock runs by    *)
(* the hour, up to and past the age at which a session is swept.           *)

\* the skins sheet read succeeds and returns the small sheet
SmallSheetRead == [ok |-> TRUE, values |-> SmallSheet]

NextFrame ==
    \/ Tick(SessionMaxAge)
    \/ StartCommand(1, TRUE)
    \/ AddNewSkin(1)
    \/ \E text \in { <<"a">>, <<"7">> } : TextMessage(1, text, TRUE, SmallSheetRead)
    \/ \E page \in 0..1 : PageAction(1, page, TRUE)
    \/ SelectSkin(1, "AK-47%20%7C%20Redline")
    \/ SelectWear(1, "Factory%20New")
    \/ FinishLog(1)
    \/ \E replyOk \in BOOLEAN : SelectAccount(1, "Panda%20main", TRUE, TRUE, replyOk)
    \/ SelectSkin(2, "AWP%20%7C%20Asiimov")

SpecFrame == Init /\ [][NextFrame]_vars

---------------------------------------------------------------------------
(* The trade log alone: the writer and the two readers applied to a log    *)
(* that already holds rows, of any dates in any order.                     *)

MaxLogRows == 3      \* rows the log holds in this specification
MaxCount == 2        \* the count getRecentTrades is asked for: 0..MaxCount

LogSkins ==
    { <<>>,
      << [name |-> "AK-47 | Redline", wear |-> "Factory New"] >>,
      << [name |-> "AWP | Asiimov", wear |-> "Field-Tested"],
         [name |-> "AK-47 | Redline", wear |-> "Well-Worn"] >> }

LogPrices == { parseFloat(<<"1", "2", ".", "5", "0">>), parseFloat(<<"7">>) }

\* a row written on day `date`
OldRow(date, name, account) ==
    [date |-> date, name |-> name, wear |-> "Minimal Wear",
     price |-> parseFloat(<<"3">>), reserved |-> "", account |-> account]

\* what the log may hold at start: nothing, one row, rows of rising dates,
\* of falling dates, of one date
PriorLogs ==
    { <<>>,
      << OldRow(0, "M4A4 | Howl", "Maleek") >>,
      << OldRow(0, "M4A4 | Howl", "Maleek"), OldRow(1, "AWP | Asiimov", "Titalium") >>,
      << OldRow(1, "AWP | Asiimov", "Titalium"), OldRow(0, "M4A4 | Howl", "Maleek") >>,
      << OldRow(1, "M4A4 | Howl", "Maleek"), OldRow(1, "AWP | Asiimov", "Titalium") >> }

LogEvent(ev, count, skins, price, account, out) ==
    [ev |-> ev, user |-> 0, msgs |-> out, writer |-> "none", fetch |-> "none",
     created |-> FALSE, count |-> count, skins |-> skins, price |-> price,
     account |-> account]

InitLog ==
    /\ userSessions = [k \in {} |-> NewSession(0)]
    /\ skinsCache = [list |-> <<>>, lastUpdated |-> 0]
    /\ rows \in PriorLogs
    /\ now = BootTime
    /\ last = LogEvent("boot", 0, <<>>, Undefined, "", <<>>)
    /\ pending = [k \in {} |-> [pc |-> "client", text |-> <<>>]]

\* appendToSpreadsheet succeeds
AppendLog(skins, price, account) ==
    /\ Len(rows) + Len(skins) <= MaxLogRows
    /\ rows' = rows \o RowsOf(skins, price, account, now)
    /\ last' = LogEvent("append", 0, skins, price, account, <<>>)
    /\ UNCHANGED <<userSessions, skinsCache, now, pending>>

\* getRecentTrades(sheets, count) reads the log
RecentTrades(count) ==
    /\ last' = LogEvent("recent", count, <<>>, Undefined, "",
                        getRecentTrades(rows, count))
    /\ UNCHANGED <<userSessions, skinsCache, rows, now, pending>>

\* getLastLog(sheets) reads the log
LastLog ==
    /\ last' = LogEvent("last_log", 0, <<>>, Undefined, "", <<getLastLog(rows)>>)
    /\ UNCHANGED <<userSessions, skinsCache, rows, now, pending>>

NextLog ==
    \/ \E skins \in LogSkins, price \in LogPrices, account \in Range(accountOptions) :
          AppendLog(skins, price, account)
    \/ \E count \in 0..MaxCount : RecentTrades(count)
    \/ LastLog

SpecLog == InitLog /\ [][NextLog]_vars

---------------------------------------------------------------------------
(* What the claims speak of. *)

\* the last event was handled by a handler that calls initializeSession
Handled(l) ==
    l.ev \notin {"boot", "tick"} /\ l.msgs # <<"error_start">>

\* a price that is set and > 0
SetAndPositive(x) == x.kind \in {"fin", "inf"} /\ x.m > 0

IsDefault(s) ==
    /\ s.step = "addSkin" /\ s.skins = <<>> /\ s.price = Undefined
    /\ s.search = EmptySearch /\ s.currentSkin = <<>>

---------------------------------------------------------------------------
(* C1: an account-selection event calls the trade log writer only when the *)
(* session's pendingSkins is non-empty and its price is set and > 0; in    *)
(* any other session state it appends nothing to the row store and leaves  *)
(* pendingSkins and price unchanged.  The handler checks neither, so this  *)
(* is violated: the statement as the claim makes it.                       *)
C1_CommitOnlyWhenReady ==
    [][ \A u \in DOMAIN userSessions :
          ( /\ last'.ev = "select_account" /\ last'.user = u
            /\ ~(Len(userSessions[u].skins) > 0
                   /\ SetAndPositive(userSessions[u].price)) )
          => /\ last'.writer = "none"
             /\ rows' = rows
             /\ userSessions'[u].skins = userSessions[u].skins
             /\ userSessions'[u].price = userSessions[u].price ]_vars

---------------------------------------------------------------------------
---------------------------------------------------------------------------
(* C8: in every reachable state where a session's step is selectAccount,   *)
(* its price is a positive finite number.  Violated: parseFloat reads      *)
(* "Infinity" as a number that is neither NaN nor <= 0.                    *)
C8_PriceIsPositiveFinite ==
    \A u \in DOMAIN userSessions :
        userSessions[u].step = "selectAccount"
            => PositiveFinite(userSessions[u].price)

---------------------------------------------------------------------------
(* C9: in every reachable state where a session's step is enterPrice,      *)
(* pendingSkins is non-empty; a finish event received while pendingSkins   *)
(* is empty produces the "no skins added" message and leaves step,         *)
(* pendingSkins and price unchanged.                                       *)
C9_FinishNeedsSkins ==
    /\ [](\A u \in DOMAIN userSessions :
            userSessions[u].step = "enterPrice" => Len(userSessions[u].skins) > 0)
    /\ [][ \A u \in DOMAIN userSessions :
             ( /\ last'.ev = "finish_log" /\ last'.user = u
               /\ Len(userSessions[u].skins) = 0 )
             => /\ last'.msgs = <<"no_skins_added">>
                /\ userSessions'[u].step = userSessions[u].step
                /\ userSessions'[u].skins = userSessions[u].skins
                /\ userSessions'[u].price = userSessions[u].price ]_vars

\* a finish event was refused in the middle of a search
C9_Witness ==
    /\ last.ev = "finish_log" /\ last.msgs = <<"no_skins_added">>
    /\ userSessions[last.user].step = "searchSkin"
    /\ userSessions[last.user].skins = <<>>

---------------------------------------------------------------------------
(* C10: in every reachable session state, search.page * search.pageSize    *)
(* does not exceed search.results.length.  Violated: the page handler      *)
(* stores the page before it finds the page empty.                         *)
C10_PageWithinResults ==
    \A u \in DOMAIN userSessions :
        userSessions[u].search.page * userSessions[u].search.pageSize
            <= Len(userSessions[u].search.results)

---------------------------------------------------------------------------
(* C3: if a user's session has been idle for longer than the 1-hour        *)
(* threshold, the next initializeSession for that user returns a fresh     *)
(* default session, not the old one.  /start calls initializeSession and   *)
(* nothing else, so the session it leaves is the one returned: its step,   *)
(* pendingSkins, price and search must be the default ones.  Violated: the *)
(* sweep runs only when a session is created, and never for the caller's   *)
(* own session.                                                            *)
C3_IdleSessionIsReplaced ==
    [][ \A u \in DOMAIN userSessions :
          ( /\ last'.ev = "start" /\ last'.msgs = <<"menu">> /\ last'.user = u
            /\ now - userSessions[u].timestamp > SessionMaxAge )
          => IsDefault(userSessions'[u]) ]_vars

---------------------------------------------------------------------------
(* C4: immediately after any initializeSession call, whether or not the    *)
(* user already had a session, the session store holds no session whose    *)
(* timestamp is more than 1 hour older than the current time.  Violated    *)
(* when the user already had a session: then nothing is swept.             *)
C4_NoOldSessionAfterInitialize ==
    Handled(last) =>
        \A id \in DOMAIN userSessions :
            ~(now - userSessions[id].timestamp > SessionMaxAge)

---------------------------------------------------------------------------
(* C5: every initializeSession call for a user refreshes that session's    *)
(* timestamp to the current time, so a session whose user sent an event    *)
(* less than 1 hour ago (here: just now, no time having passed) is not     *)
(* removed by the sweep another user's event triggers.  Violated: the      *)
(* timestamp is set when the session is created and never again.           *)
C5_ActiveSessionIsKept ==
    [][ /\ Handled(last')
            => userSessions'[last'.user].timestamp = now'
        /\ (Handled(last) /\ Handled(last') /\ last'.user # last.user
              /\ last.user \in DOMAIN userSessions)
            => last.user \in DOMAIN userSessions' ]_vars

---------------------------------------------------------------------------
(* The skins list fetchSkinsList returned to a search is the list whose    *)
(* matches the session then holds.                                         *)
SearchedIn(list, u) ==
    userSessions'[u].search.results
        = searchSkins(list, userSessions'[u].search.term)

\* user u sends a text while searching (the session exists and is in searchSkin)
Searches(u) ==
    /\ last'.ev = "text" /\ last'.user = u
    /\ u \in DOMAIN userSessions /\ userSessions[u].step = "searchSkin"

(* C6, as claimed: for every list the remote store returned, the empty     *)
(* list included, a fetchSkinsList call within the 1-hour TTL of the       *)
(* successful fetch returns the cached list and reads nothing.             *)
C6_CachedWithinTtl ==
    [][ \A u \in Users :
          ( /\ Searches(u) /\ last'.msgs # <<"error_search_client">>
            /\ skinsCache.lastUpdated > 0
            /\ now - skinsCache.lastUpdated < cacheDuration )
          => /\ last'.fetch = "none"
             /\ skinsCache' = skinsCache
             /\ SearchedIn(skinsCache.list, u) ]_vars

(* C6, amended: for every non-empty list the remote store returned, a      *)
(* fetchSkinsList call within the 1-hour TTL of the successful fetch       *)
(* returns the cached list and reads nothing (an empty list is not served  *)
(* from the cache: the next call reads the sheet again).                   *)
C6_NonEmptyCachedWithinTtl ==
    [][ \A u \in Users :
          ( /\ Searches(u) /\ last'.msgs # <<"error_search_client">>
            /\ Len(skinsCache.list) > 0
            /\ now - skinsCache.lastUpdated < cacheDuration )
          => /\ last'.fetch = "none"
             /\ skinsCache' = skinsCache
             /\ SearchedIn(skinsCache.list, u) ]_vars

\* a search was served from a cache filled earlier, the clock having advanced
C6_Witness ==
    /\ last.ev = "text" /\ last.fetch = "none" /\ last.msgs = <<"results_page">>
    /\ Len(skinsCache.list) > 0
    /\ now > skinsCache.lastUpdated /\ now - skinsCache.lastUpdated < cacheDuration

---------------------------------------------------------------------------
(* C7: fetchSkinsList raises an error if and only if the remote fetch      *)
(* fails while the cached list is empty; when the fetch fails and the      *)
(* cached list is non-empty it returns the cached list, raises nothing     *)
(* and leaves the cache contents and lastUpdated unchanged.                *)
C7_ErrorOnlyWithoutCache ==
    [][ \A u \in Users :
          Searches(u)
          => /\ last'.msgs = <<"error_search_fetch">>
                  <=> (last'.fetch = "fail" /\ Len(skinsCache.list) = 0)
             /\ (last'.fetch = "fail" /\ Len(skinsCache.list) > 0)
                  => skinsCache' = skinsCache /\ SearchedIn(skinsCache.list, u) ]_vars

\* a failed read was answered from a cache older than an hour
C7_Witness ==
    /\ last.ev = "text" /\ last.fetch = "fail" /\ last.msgs = <<"results_page">>
    /\ Len(skinsCache.list) > 0
    /\ now - skinsCache.lastUpdated >= cacheDuration

---------------------------------------------------------------------------
(* Inputs that fail a validation: texts that are no number, texts that     *)
(* read as a number <= 0, an account outside accountOptions, a wear        *)
(* outside wearOptions.                                                    *)
NonNumericTexts == { <<"a">>, <<"R", "e", "d">> }

NonPositiveTexts == { <<"0">>, <<"-", "5">> }

UnknownAccount == "Stranger"

UnknownWear == "Mint"

\* the step from one state to the next left u's conversation as it was
SessionKept(u) ==
    /\ u \in DOMAIN userSessions'
    /\ userSessions'[u].step = userSessions[u].step
    /\ userSessions'[u].skins = userSessions[u].skins
    /\ userSessions'[u].currentSkin = userSessions[u].currentSkin
    /\ userSessions'[u].price = userSessions[u].price
    /\ userSessions'[u].search = userSessions[u].search

(* C11: every validation failure (a non-numeric price text, a price <= 0,  *)
(* an account not in the allow-list, a wear not among the five values)     *)
(* leaves the existing session's step, pendingSkins, currentSkin, price    *)
(* and search state unchanged, writes nothing to the row store and is      *)
(* answered by a re-prompt.                                                *)
C11_ValidationFailureKeepsState ==
    [][ \A u \in DOMAIN userSessions :
          /\ (last'.ev = "text" /\ userSessions[u].step = "enterPrice")
             => /\ \A text \in NonNumericTexts :
                      TextMessage(u, text, FALSE, Rejected)
                      => /\ SessionKept(u) /\ rows' = rows
                         /\ last'.msgs = <<"invalid_number">>
                /\ \A text \in NonPositiveTexts :
                      TextMessage(u, text, FALSE, Rejected)
                      => /\ SessionKept(u) /\ rows' = rows
                         /\ last'.msgs = <<"price_must_be_positive">>
          /\ last'.ev = "select_account"
             => \A sheetsOk, appendOk, replyOk \in BOOLEAN :
                   SelectAccount(u, UnknownAccount, sheetsOk, appendOk, replyOk)
                   => /\ SessionKept(u) /\ rows' = rows
                      /\ last'.msgs = <<"invalid_account">>
          /\ last'.ev = "select_wear"
             => ( SelectWear(u, UnknownWear)
                  => /\ SessionKept(u) /\ rows' = rows
                     /\ last'.msgs = <<"invalid_wear">> ) ]_vars

\* the text "a" was refused as a price: the step is still enterPrice and no
\* price is set
C11_Witness ==
    /\ last.ev = "text" /\ last.msgs = <<"invalid_number">>
    /\ userSessions[last.user].step = "enterPrice"
    /\ userSessions[last.user].price = Undefined
    /\ Len(userSessions[last.user].skins) > 0

---------------------------------------------------------------------------
(* C12: every row the program ever appended to the trade log has its       *)
(* account among the four accountOptions and its wear among the five       *)
(* wearOptions, whatever payloads the callbacks carried.  The log starts   *)
(* empty, so every row of it was appended by the program.                  *)
C12_RowsWithinOptions ==
    \A i \in 1..Len(rows) :
        /\ rows[i].account \in Range(accountOptions)
        /\ rows[i].wear \in Range(wearOptions)

\* a row was appended after callbacks with unknown payloads were refused
C12_Witness ==
    /\ Len(rows) > 0
    /\ last.ev = "select_account" /\ last.writer = "ok"
    /\ rows[Len(rows)].account = "Panda main"
    /\ rows[Len(rows)].wear = "Factory New"

---------------------------------------------------------------------------
(* C13: for every N >= 0 and every prior content of the log, appending N   *)
(* item rows through appendToSpreadsheet (one per item, in pendingSkins    *)
(* order, all with the same date, price and account) and then asking       *)
(* getRecentTrades for N returns exactly those N items, the most recently  *)
(* appended first, each with its date, name, wear, price and account.      *)
(* The sentinel an empty log is answered with counts as no items.          *)
(* Violated for N = 0 on a log that holds rows: rows.slice(-0) is the      *)
(* whole log.                                                              *)
C13_RecentReturnsTheAppended ==
    [][ ( /\ last.ev = "append" /\ last'.ev = "recent"
          /\ last'.count = Len(last.skins) )
        => LET n == Len(last.skins)
           IN  \/ rows = <<>> /\ last'.msgs = <<NoRecentTrades>>
               \/ last'.msgs =
                   [i \in 1..n |->
                       [trade |-> i,
                        date |-> IsoDate(now),
                        skin |-> last.skins[n + 1 - i].name,
                        wear |-> last.skins[n + 1 - i].wear,
                        price |-> last.price,
                        account |-> last.account]] ]_vars

---------------------------------------------------------------------------
(* C16: for every non-empty log, in any order of dates, getLastLog reports *)
(* the rows whose date is the maximum date of the log, one item line per   *)
(* such row, then the price and account of the first row of that group;    *)
(* for an empty log it returns the "no previous logs" sentinel.  Violated: *)
(* the date reported is that of the last row, not the maximum.             *)
C16_LastLogReportsMaxDate ==
    last.ev = "last_log" =>
        IF rows = <<>> THEN last.msgs = <<NoPreviousLogs>>
        ELSE LET maxDate == CHOOSE d \in {rows[i].date : i \in 1..Len(rows)} :
                               \A i \in 1..Len(rows) : rows[i].date <= d
                 OfMaxDate(row) == row.date = maxDate
                 group == SelectSeq(rows, OfMaxDate)
             IN  last.msgs =
                    << [date |-> maxDate,
                        skins |-> [i \in 1..Len(group) |->
                                      [skin |-> group[i].name, wear |-> group[i].wear]],
                        price |-> group[1].price,
                        account |-> group[1].account] >>

---------------------------------------------------------------------------
\* the pages 0..n-1 the handlers show of a search, one after the other:
\* page 0 as the search shows it, the others as the page handler does
RECURSIVE PagesJoined(_, _)
PagesJoined(search, n) ==
    IF n = 0 THEN <<>>
    ELSE PagesJoined(search, n - 1)
            \o (IF n = 1 THEN FirstPageView(search).skins
                ELSE PageView(search.results, search.pageSize, n - 1).skins)

\* the least n with n * size >= length
Ceiling(length, size) ==
    CHOOSE n \in 0..length : n * size >= length /\ (n = 0 \/ (n - 1) * size < length)

(* C14: for every result list and the page size 5, the pages the search    *)
(* handler (page 0) and the page handler (page N) show partition the       *)
(* stored results: the slices of pages 0..totalPages-1 joined are the      *)
(* result list; the page count shown is ceil(len / pageSize); a Previous   *)
(* button is offered iff page > 0 and a Next button iff                    *)
(* (page + 1) * pageSize < len.                                            *)
C14_PagesPartitionResults ==
    \A u \in DOMAIN userSessions :
        LET search == userSessions[u].search
            length == Len(search.results)
            total == Ceiling(length, PageSize)
            page == search.page
            shown == last.view
        IN  /\ search.pageSize = PageSize
            /\ PagesJoined(search, total) = search.results
            /\ (last.user = u /\ last.msgs = <<"results_page">>)
               => /\ shown.page = page + 1
                  /\ shown.total = total
                  /\ shown.skins =
                        [i \in 1..(IF (page + 1) * PageSize < length
                                   THEN PageSize ELSE length - page * PageSize) |->
                            search.results[page * PageSize + i]]
                  /\ shown.prev <=> page > 0
                  /\ shown.next <=> (page + 1) * PageSize < length

\* the second and last page of exactly ten results was shown
C14_Witness ==
    /\ last.ev = "page" /\ last.msgs = <<"results_page">>
    /\ userSessions[last.user].search.page = 1
    /\ Len(userSessions[last.user].search.results) = 2 * PageSize
    /\ last.view.prev /\ ~last.view.next

---------------------------------------------------------------------------
(* C15: for every corpus and query, the similarity score being a given     *)
(* function into 0..100, searchSkins returns exactly the corpus entries    *)
(* whose score is > 70, ordered by non-increasing score, entries of equal  *)
(* score in their corpus order; when no entry clears the threshold it      *)
(* returns the empty sequence, not an error.  The corpus of a search that  *)
(* was answered is the skins list the cache holds after it.                *)
C15_RankedAboveThreshold ==
    \A u \in DOMAIN userSessions :
        (last.ev = "text" /\ last.user = u /\ userSessions[u].step = "searchSkin"
            /\ last.msgs \notin {<<"error_search_client">>, <<"error_search_fetch">>})
        => LET corpus == skinsCache.list
               found == userSessions[u].search.results
               Score(name) ==
                   partial_ratio(Normalize(userSessions[u].search.term), name)
               Position(name) == CHOOSE k \in 1..Len(corpus) : corpus[k] = name
           IN  /\ Range(found) =
                     {corpus[k] : k \in {j \in 1..Len(corpus) :
                                            Score(corpus[j]) > ScoreThreshold}}
               /\ Cardinality(Range(found)) = Len(found)
               /\ \A i, j \in 1..Len(found) :
                     i < j => \/ Score(found[i]) > Score(found[j])
                              \/ /\ Score(found[i]) = Score(found[j])
                                 /\ Position(found[i]) < Position(found[j])
               /\ last.msgs = IF found = <<>> THEN <<"no_skins_found">>
                               ELSE <<"results_page">>

\* "Red" ranked Red Tiger first, the two Redlines in sheet order, Howl last,
\* and left out Vulcan, whose score is 70
C15_Witness ==
    /\ last.ev = "text" /\ last.fetch = "ok"
    /\ userSessions[last.user].search.results =
          <<"M4A1-S | Red Tiger", "AK-47 | Redline", "AWP | Redline", "M4A4 | Howl">>
    /\ "AK-47 | Vulcan" \in Range(skinsCache.list)

---------------------------------------------------------------------------
\* the conversation edges: the event, the step it is the trigger of, and
\* the step it leads to
Edges ==
    { <<"add_new_skin", "addSkin", "searchSkin">>,
      <<"select_skin", "searchSkin", "selectWear">>,
      <<"select_wear", "selectWear", "addSkin">>,
      <<"finish_log", "addSkin", "enterPrice">>,
      <<"text", "enterPrice", "selectAccount">>,
      <<"select_account", "selectAccount", "addSkin">> }

IsTrigger(ev, step) == \E e \in Edges : e[1] = ev /\ e[2] = step

(* C17: for every sequence of events of one user, taps on buttons of       *)
(* earlier messages included, the session step changes only along the      *)
(* conversation edges, and an event that is not the trigger of the current *)
(* step changes neither the step nor the pending data.  Violated: no       *)
(* handler looks at the step before it assigns it.                         *)
C17_StepFollowsEdges ==
    [][ \A u \in DOMAIN userSessions :
          (Handled(last') /\ last'.user = u)
          => LET from == userSessions[u].step
                 to == userSessions'[u].step
             IN  IF IsTrigger(last'.ev, from)
                 THEN to = from \/ <<last'.ev, from, to>> \in Edges
                 ELSE /\ to = from
                      /\ userSessions'[u].skins = userSessions[u].skins
                      /\ userSessions'[u].currentSkin = userSessions[u].currentSkin
                      /\ userSessions'[u].price = userSessions[u].price ]_vars

---------------------------------------------------------------------------
\* every entry of every pendingSkins has a name and one of the five wears
EntriesComplete ==
    \A u \in DOMAIN userSessions :
        \A i \in 1..Len(userSessions[u].skins) :
            /\ userSessions[u].skins[i].name # ""
            /\ userSessions[u].skins[i].wear \in Range(wearOptions)

(* C18, as claimed: an item-selection event received in searchSkin appends *)
(* exactly one {name, wear} entry to pendingSkins and moves the session to *)
(* addSkin with the "add another" / "finish" controls; no entry is ever in *)
(* pendingSkins without both a name and a wear.                            *)
C18_ItemSelectionAppends ==
    /\ []EntriesComplete
    /\ [][ \A u \in DOMAIN userSessions :
             (userSessions[u].step = "searchSkin"
                 /\ SelectSkin(u, "AK-47%20%7C%20Redline"))
             => /\ Len(userSessions'[u].skins) = Len(userSessions[u].skins) + 1
                /\ userSessions'[u].step = "addSkin"
                /\ last'.msgs = <<"added_skin">> ]_vars

(* C18, amended: an item-selection event received in searchSkin keeps the  *)
(* chosen name as currentSkin, appends nothing and moves the session to    *)
(* selectWear with the five wear buttons; the wear selection received in   *)
(* selectWear appends exactly one {name, wear} entry, of that name and the *)
(* chosen wear, and moves the session to addSkin with the "add another" /  *)
(* "finish" controls; no entry is ever in pendingSkins without both a name *)
(* and a wear.                                                             *)
C18_WearSelectionAppends ==
    /\ []EntriesComplete
    /\ [][ \A u \in DOMAIN userSessions :
             /\ (userSessions[u].step = "searchSkin"
                    /\ SelectSkin(u, "AK-47%20%7C%20Redline"))
                => /\ userSessions'[u].skins = userSessions[u].skins
                   /\ userSessions'[u].currentSkin = <<[name |-> "AK-47 | Redline"]>>
                   /\ userSessions'[u].step = "selectWear"
                   /\ last'.msgs = <<"choose_wear">>
             /\ (userSessions[u].step = "selectWear"
                    /\ SelectWear(u, "Factory%20New"))
                => /\ userSessions'[u].skins =
                         Append(userSessions[u].skins,
                                [name |-> userSessions[u].currentSkin[1].name,
                                 wear |-> "Factory New"])
                   /\ userSessions'[u].step = "addSkin"
                   /\ last'.msgs = <<"added_skin">> ]_vars

\* a second skin was appended by a wear selection made in selectWear
C18_Witness ==
    /\ last.ev = "select_wear" /\ last.msgs = <<"added_skin">>
    /\ userSessions[last.user].step = "addSkin"
    /\ userSessions[last.user].skins =
          << [name |-> "AK-47 | Redline", wear |-> "Factory New"],
             [name |-> "AK-47 | Redline", wear |-> "Factory New"] >>

---------------------------------------------------------------------------
\* the events of the conversation
CoreEvents ==
    {"add_new_skin", "text", "page", "select_skin", "select_wear", "finish_log",
     "select_account"}

\* the send of the success message of select_account was rejected, and the
\* catch block sent the error message after it
SendFailed(l) ==
    l.ev = "select_account" /\ l.msgs = <<"log_saved", "error_saving">>

(* C19: every event the conversation handles (start-adding, search text,   *)
(* page N, item selection, wear selection, finish, price text, account     *)
(* selection, other text), on its success path and on each of its          *)
(* validation and upstream-failure paths, sends exactly one message or     *)
(* menu.  The path on which a send itself is rejected is none of these.    *)
C19_OneMessagePerEvent ==
    (last.ev \in CoreEvents /\ ~SendFailed(last)) => Len(last.msgs) = 1

\* a search that found the skins sheet unreadable and no cached list was
\* answered by the one error message
C19_Witness ==
    /\ last.ev = "text" /\ last.fetch = "fail"
    /\ last.msgs = <<"error_search_fetch">>
    /\ userSessions[last.user].step = "searchSkin"

---------------------------------------------------------------------------
\* user u's sheet read returns `values` in this step, and fetchSkinsList
\* goes on from there
ReadReturns(u, values) == SearchRead(u, [ok |-> TRUE, values |-> values])

(* C20: when two fetchSkinsList calls run at once on a stale cache, both   *)
(* complete, each returns the whole list its own read fetched, and in      *)
(* every interleaving the cache holds exactly the list of the read that    *)
(* returned last, with lastUpdated set by that same write: the cache       *)
(* changes only when a read returns, then to that read's list and the time *)
(* of its return together, so it is never a mix of two lists and never     *)
(* empty after a read that returned names.                                 *)
C20_LastWriteWins ==
    /\ [][ /\ \A u \in DOMAIN pending, values \in RemoteSheets :
                ReadReturns(u, values)
                => /\ skinsCache' =
                         [list |-> SheetNames(values), lastUpdated |-> now]
                   /\ userSessions'[u].search.results
                         = searchSkins(SheetNames(values), pending[u].text)
                   /\ last'.msgs \in {<<"results_page">>, <<"no_skins_found">>}
           /\ skinsCache' # skinsCache
                => \E u \in DOMAIN pending, values \in RemoteSheets :
                      ReadReturns(u, values) ]_vars
    /\ \A u \in Users : (u \in DOMAIN pending) ~> (u \notin DOMAIN pending)

\* Both users searched on the stale cache and their reads returned two
\* different sheets: user 1 was shown the names of the small sheet, and the
\* cache holds the big sheet, which user 2's read returned a millisecond
\* later.
C20_Witness ==
    /\ pending = <<>> /\ DOMAIN userSessions = Users
    /\ last.ev = "text" /\ last.user = 2 /\ last.fetch = "ok"
    /\ userSessions[1].search.results = SheetNames(SmallSheet)
    /\ userSessions[2].search.results = SheetNames(BigSheet)
    /\ skinsCache = [list |-> SheetNames(BigSheet), lastUpdated |-> BootTime + 1]

---------------------------------------------------------------------------
(* C21: a batch of pendingSkins is written to the log at most once: in     *)
(* every interleaving of one user's events, two select_account calls in    *)
(* flight at once and a select_account repeated after the success message  *)
(* failed to send included, no pendingSkins entry has more than one row.   *)
(* Every entry being a different skin and wear, no two rows of the log     *)
(* carry the same skin and wear.  Violated: nothing keeps a second call    *)
(* from appending the skins the first one appended.                        *)
C21_BatchWrittenOnce ==
    \A i, j \in 1..Len(rows) :
        (rows[i].name = rows[j].name /\ rows[i].wear = rows[j].wear) => i = j

---------------------------------------------------------------------------
\* the step handles an event of user a
EventOf(a) == last'.user = a /\ last'.ev \notin {"boot", "tick"}

(* C22: handling an event of user A never changes the step, pendingSkins,  *)
(* currentSkin, price or search state of another user B's session, and     *)
(* gives B no session; the one effect it can have on B's session is its    *)
(* removal by the sweep, and then B's session is older than one hour.      *)
C22_OtherSessionsUntouched ==
    [][ \A a \in Users : \A b \in Users \ {a} :
            EventOf(a) =>
                IF b \notin DOMAIN userSessions THEN b \notin DOMAIN userSessions'
                ELSE \/ /\ b \in DOMAIN userSessions'
                        /\ userSessions'[b] = userSessions[b]
                     \/ /\ b \notin DOMAIN userSessions'
                        /\ now - userSessions[b].timestamp > SessionMaxAge ]_vars

\* User 1's log was saved and their session reset while user 2's session,
\* created earlier and now past the hour, holds the skin user 2 picked.
C22_Witness ==
    /\ last.ev = "select_account" /\ last.user = 1 /\ last.msgs = <<"log_saved">>
    /\ DOMAIN userSessions = Users
    /\ IsDefault(userSessions[1])
    /\ userSessions[2].step = "selectWear"
    /\ userSessions[2].currentSkin = <<[name |-> "AWP | Asiimov"]>>
    /\ now - userSessions[2].timestamp > SessionMaxAge

=============================================================================
